---- MODULE Spec2Model ----
(***************************************************************************)
(* que.js - viewport checker.  One watcher created by que(selector, opts): *)
(* its options, the element it resolved, the element's class list, the    *)
(* activated flag of the closure, the listeners registered on window, and *)
(* the callback invocations, driven by scroll and resize events.          *)
(*                                                                         *)
(* Environment assumptions of this development:                           *)
(*  - options.callback, when it is a function, records its call and       *)
(*    returns normally; it does not touch the element or the handle       *)
(*    (SpecThrow is the same watcher with a callback that throws);        *)
(*  - classToAdd and classToRemove, when both are set, are two different  *)
(*    class names (the statements below speak of them as two classes);    *)
(*  - nothing but the watcher changes the two classes of the element.     *)
(***************************************************************************)
EXTENDS Integers, Sequences, FiniteSets, TLC

\* ------------------------------------------------------------------ bounds

\* largest options.offset drawn (besides the scenario's)
MaxOffset == 1
\* largest window.innerHeight / documentElement.clientHeight drawn
MaxVh == 3
\* largest rect coordinate drawn; the smallest is -1
MaxCoord == 2
\* signals are delivered while fewer than MaxCalls callback calls are recorded
MaxCalls == 3

\* ------------------------------------------------------------------ values

NULL == "null"

\* spec.md section 8, property 5: offset=50, viewport height=800, rect 700..750
Scenario == [offset |-> 50, innerHeight |-> 800, top |-> 700, bottom |-> 750]

Offsets == (0..MaxOffset) \cup {Scenario.offset}

Coords == (0 - 1)..MaxCoord

Rects == {r \in [top : Coords, bottom : Coords] : r.top <= r.bottom}

ScenarioRect == [top |-> Scenario.top, bottom |-> Scenario.bottom]

\* window.innerHeight with documentElement.clientHeight; clientHeight is read
\* only when innerHeight is 0, so it is varied only there.
Viewports ==
  {[innerHeight |-> h, clientHeight |-> h] : h \in 1..MaxVh}
    \cup {[innerHeight |-> 0, clientHeight |-> c] : c \in {0, MaxVh}}

ScenarioViewport ==
  [innerHeight |-> Scenario.innerHeight, clientHeight |-> Scenario.innerHeight]

\* options after Object.assign(defaults, opts)
defaults ==
  [classToAdd |-> "que", classToRemove |-> NULL, offset |-> 0,
   once |-> TRUE, repeat |-> FALSE, callback |-> NULL]

Options ==
  [classToAdd : {"que"}, classToRemove : {NULL, "outview"}, offset : Offsets,
   once : BOOLEAN, repeat : BOOLEAN, callback : {NULL, "function"}]

\* the same options with a callback that throws when it is called
ThrowingOptions ==
  [classToAdd : {"que"}, classToRemove : {NULL, "outview"}, offset : Offsets,
   once : BOOLEAN, repeat : BOOLEAN, callback : {"throws"}]

\* the classes of the element the watcher can touch
ClassNames(o) == {o.classToAdd} \cup ({o.classToRemove} \ {NULL})

VARIABLES
  options,       \* the merged options of the closure
  el,            \* document.querySelector(selector): NULL or "element"
  classList,     \* el.classList, restricted to ClassNames
  activated,     \* var activated
  listeners,     \* event types of window on which check is registered
  calls,         \* actions the callback was invoked with, in order
  result,        \* "pending" before que() is called, then what the call gave:
                 \* "handle", "undefined", or "threw" (no value: it threw)
  rect,          \* el.getBoundingClientRect() now
  viewport,      \* window.innerHeight and documentElement.clientHeight now
  initClasses,   \* history: classList when que() was called
  lastInView,    \* history: inView of the most recent check: "never", "in", "out"
  lastTransition,\* history: most recent of activate / deactivate, or "none"
  seen,          \* history: what the most recent callback call could observe
  flips,         \* history: every check so far found inView flipped: in, out, in, ...
  last           \* history: the last operation and what its check did

vars == <<options, el, classList, activated, listeners, calls, result, rect,
          viewport, initClasses, lastInView, lastTransition, seen, flips, last>>

\* ------------------------------------------------------------------ que.js

truthy(v) == v # NULL /\ v # ""

\* the closure's mutable state, threaded through the functions below
\* threw: an exception is propagating out of the running function
closure == [classList |-> classList, activated |-> activated,
            listeners |-> listeners, calls |-> calls, seen |-> seen,
            threw |-> FALSE]

\* the state of the watcher at the moment the callback is entered
Snapshot(w, action) ==
  [action |-> action, classList |-> w.classList, activated |-> w.activated,
   listeners |-> w.listeners]

NoSnapshot ==
  [action |-> "none", classList |-> {}, activated |-> FALSE, listeners |-> {}]

\* if (typeof options.callback === 'function') options.callback(el, action)
invokeCallback(w, action) ==
  IF options.callback \in {"function", "throws"}
    THEN [w EXCEPT !.calls = Append(@, action), !.seen = Snapshot(w, action),
                   !.threw = (options.callback = "throws")]
    ELSE w

\* activate that sets the flag before it notifies the callback
activateFlagFirst(w) ==
  LET w1 == [w EXCEPT !.classList = @ \cup {options.classToAdd}]
      w2 == IF truthy(options.classToRemove)
              THEN [w1 EXCEPT !.classList = @ \ {options.classToRemove}]
              ELSE w1
      w3 == [w2 EXCEPT !.activated = TRUE]
  IN  invokeCallback(w3, "add")

\* activate that leaves classToRemove on the element
activateKeepsRemoveClass(w) ==
  LET w1 == [w EXCEPT !.classList = @ \cup {options.classToAdd}]
      w3 == invokeCallback(w1, "add")
  IN  [w3 EXCEPT !.activated = TRUE]

\* activate that forgets to set the activated flag
activateForgetsFlag(w) ==
  LET w1 == [w EXCEPT !.classList = @ \cup {options.classToAdd}]
      w2 == IF truthy(options.classToRemove)
              THEN [w1 EXCEPT !.classList = @ \ {options.classToRemove}]
              ELSE w1
  IN  invokeCallback(w2, "add")

activate(w) ==
  LET w1 == [w EXCEPT !.classList = @ \cup {options.classToAdd}]
      w2 == IF truthy(options.classToRemove)
              THEN [w1 EXCEPT !.classList = @ \ {options.classToRemove}]
              ELSE w1
      w3 == invokeCallback(w2, "add")
  IN  IF w3.threw THEN w3 ELSE [w3 EXCEPT !.activated = TRUE]

\* deactivate that forgets to put classToRemove on the element
deactivateForgetsRemoveClass(w) ==
  LET w1 == [w EXCEPT !.classList = @ \ {options.classToAdd}]
      w3 == invokeCallback(w1, "remove")
  IN  [w3 EXCEPT !.activated = FALSE]

\* deactivate that forgets to notify the callback
deactivateSilent(w) ==
  LET w1 == [w EXCEPT !.classList = @ \ {options.classToAdd}]
      w2 == IF truthy(options.classToRemove)
              THEN [w1 EXCEPT !.classList = @ \cup {options.classToRemove}]
              ELSE w1
  IN  [w2 EXCEPT !.activated = FALSE]

deactivate(w) ==
  LET w1 == [w EXCEPT !.classList = @ \ {options.classToAdd}]
      w2 == IF truthy(options.classToRemove)
              THEN [w1 EXCEPT !.classList = @ \cup {options.classToRemove}]
              ELSE w1
      w3 == invokeCallback(w2, "remove")
  IN  IF w3.threw THEN w3 ELSE [w3 EXCEPT !.activated = FALSE]

\* detach that removes nothing (it names another function than check)
detachRemovesNothing(w) == w

\* detach that also undoes the activation
detachDeactivates(w) ==
  [w EXCEPT !.listeners = {}, !.activated = FALSE,
            !.classList = @ \ {options.classToAdd}]

\* detach that forgets the resize listener
detachScrollOnly(w) == [w EXCEPT !.listeners = @ \ {"scroll"}]

\* removeEventListener of a listener that is not registered does nothing; the
\* passive option of the scroll registration plays no part in matching it.
detach(w) ==
  LET w1 == [w EXCEPT !.listeners = @ \ {"scroll"}]
  IN  [w1 EXCEPT !.listeners = @ \ {"resize"}]

\* var vh = window.innerHeight || document.documentElement.clientHeight
viewportHeight(vp) ==
  IF vp.innerHeight # 0 THEN vp.innerHeight ELSE vp.clientHeight

\* the predicate with the edges of the band counted as inside
inViewInclusive(r, vh, offset) == r.top <= vh - offset /\ r.bottom >= offset

inView(r, vh, offset) == r.top < vh - offset /\ r.bottom > offset

\* the branches with the activate branch not guarded by activated
checkOutcomeAlwaysActivates(w, iv) ==
  IF iv THEN "activate"
  ELSE IF ~iv /\ w.activated /\ options.repeat THEN "deactivate"
  ELSE "noop"

\* the branches without the deactivate branch
checkOutcomeNeverDeactivates(w, iv) ==
  IF iv /\ (~w.activated \/ options.repeat) THEN "activate" ELSE "noop"

\* the branches with once forbidding any deactivate
checkOutcomeOnceBlocksDeactivate(w, iv) ==
  IF iv /\ (~w.activated \/ options.repeat) THEN "activate"
  ELSE IF ~iv /\ w.activated /\ options.repeat /\ ~options.once THEN "deactivate"
  ELSE "noop"

\* the branches with repeat ignored by the activate branch
checkOutcomeActivatesOnce(w, iv) ==
  IF iv /\ ~w.activated THEN "activate"
  ELSE IF ~iv /\ w.activated /\ options.repeat THEN "deactivate"
  ELSE "noop"

\* the branches with the deactivate branch not guarded by activated
checkOutcomeIgnoresActivated(w, iv) ==
  IF iv /\ (~w.activated \/ options.repeat) THEN "activate"
  ELSE IF ~iv /\ options.repeat THEN "deactivate"
  ELSE "noop"

\* which branch of check() is taken
checkOutcome(w, iv) ==
  IF iv /\ (~w.activated \/ options.repeat) THEN "activate"
  ELSE IF ~iv /\ w.activated /\ options.repeat THEN "deactivate"
  ELSE "noop"

\* check that detaches after an activation whenever once is set
checkOnceWins(w, r, vp) ==
  LET iv == inView(r, viewportHeight(vp), options.offset)
      outcome == checkOutcome(w, iv)
  IN  IF outcome = "activate"
        THEN LET w1 == activate(w)
             IN  IF options.once THEN detach(w1) ELSE w1
      ELSE IF outcome = "deactivate"
        THEN deactivate(w)
      ELSE w

\* check that never detaches after a one-shot activation
checkKeepsListeners(w, r, vp) ==
  LET iv == inView(r, viewportHeight(vp), options.offset)
      outcome == checkOutcome(w, iv)
  IN  IF outcome = "activate" THEN activate(w)
      ELSE IF outcome = "deactivate" THEN deactivate(w)
      ELSE w

check(w, r, vp) ==
  LET iv == inView(r, viewportHeight(vp), options.offset)
      outcome == checkOutcome(w, iv)
  IN  IF outcome = "activate"
        THEN LET w1 == activate(w)
             IN  IF w1.threw THEN w1
                 ELSE IF options.once /\ ~options.repeat THEN detach(w1)
                 ELSE w1
      ELSE IF outcome = "deactivate"
        THEN deactivate(w)
      ELSE w

\* ------------------------------------------------------------------ steps

Install(w) ==
  /\ classList' = w.classList
  /\ activated' = w.activated
  /\ listeners' = w.listeners
  /\ calls' = w.calls
  /\ seen' = w.seen

\* the history left by a step named op that ran check on (r, vp) from w
Checked(op, w, r, vp) ==
  LET iv == inView(r, viewportHeight(vp), options.offset)
      outcome == checkOutcome(w, iv)
  IN  /\ lastInView' = IF iv THEN "in" ELSE "out"
      /\ lastTransition' = IF outcome = "noop" THEN lastTransition ELSE outcome
      /\ flips' = (flips /\ iv = (lastInView # "in"))
      /\ last' = [op |-> op, outcome |-> outcome]

NotChecked(op) ==
  /\ UNCHANGED <<lastInView, lastTransition, flips>>
  /\ last' = [op |-> op, outcome |-> "none"]

\* the state before que() is called with options drawn from opts
InitFrom(opts) ==
  /\ options \in opts
  /\ el \in {NULL, "element"}
  /\ classList \in SUBSET ClassNames(options)
  /\ activated = FALSE
  /\ listeners = {}
  /\ calls = <<>>
  /\ seen = NoSnapshot
  /\ result = "pending"
  /\ \/ /\ options.offset \in 0..MaxOffset
        /\ rect \in Rects
        /\ viewport \in Viewports
     \/ /\ options.offset = Scenario.offset
        /\ rect = ScenarioRect
        /\ viewport = ScenarioViewport
  /\ initClasses = classList
  /\ lastInView = "never"
  /\ lastTransition = "none"
  /\ flips = TRUE
  /\ last = [op |-> "init", outcome |-> "none"]

Init == InitFrom(Options)

\* que() called with a callback that throws
InitThrow == InitFrom(ThrowingOptions)

\* que that registers its listeners but forgets the initial check()
queNoInitialCheck ==
  /\ result = "pending"
  /\ UNCHANGED <<options, el, rect, viewport, initClasses>>
  /\ IF el = NULL
       THEN /\ result' = "undefined"
            /\ UNCHANGED <<classList, activated, listeners, calls, seen>>
       ELSE /\ listeners' = {"scroll", "resize"}
            /\ result' = "handle"
            /\ UNCHANGED <<classList, activated, calls, seen>>
  /\ NotChecked("que")

\* que that forgets the early return for a selector that matches nothing
queNoGuard ==
  /\ result = "pending"
  /\ UNCHANGED <<options, el, rect, viewport, initClasses>>
  /\ listeners' = {"scroll", "resize"}
  /\ result' = "handle"
  /\ UNCHANGED <<classList, activated, calls, seen>>
  /\ NotChecked("que")

\* que(selector, opts)
que ==
  /\ result = "pending"
  /\ UNCHANGED <<options, el, rect, viewport, initClasses>>
  /\ IF el = NULL
       THEN /\ result' = "undefined"
            /\ UNCHANGED <<classList, activated, listeners, calls, seen>>
            /\ NotChecked("que")
       ELSE LET w1 == [closure EXCEPT !.listeners = @ \cup {"scroll"}]
                w2 == [w1 EXCEPT !.listeners = @ \cup {"resize"}]
                w3 == check(w2, rect, viewport)
            IN  /\ Install(w3)
                /\ Checked("que", w2, rect, viewport)
                /\ result' = IF w3.threw THEN "threw" ELSE "handle"

\* a signal of the given type; the page has moved to (r, vp).  An exception
\* thrown by a listener ends that listener and is reported, nothing more.
Signal(type, r, vp) ==
  /\ result # "pending"
  /\ Len(calls) < MaxCalls
  /\ rect' = r
  /\ viewport' = vp
  /\ UNCHANGED <<options, el, result, initClasses>>
  /\ IF type \in listeners
       THEN /\ Install(check(closure, r, vp))
            /\ Checked("signal", closure, r, vp)
       ELSE /\ UNCHANGED <<classList, activated, listeners, calls, seen>>
            /\ NotChecked("signal")

\* a scroll event: the element's rectangle changes
Scroll == \E r \in Rects : Signal("scroll", r, viewport)

\* a resize event: the viewport and the element's rectangle change
Resize == \E r \in Rects, vp \in Viewports : Signal("resize", r, vp)

\* handle.detach() called by the owner of the handle
CallDetach ==
  /\ result = "handle"
  /\ Install(detach(closure))
  /\ UNCHANGED <<options, el, result, rect, viewport, initClasses>>
  /\ UNCHANGED <<lastInView, lastTransition, flips>>
  /\ last' = [op |-> IF last.op \in {"detach", "detach again"}
                       THEN "detach again" ELSE "detach",
              outcome |-> "none"]

Next == que \/ Scroll \/ Resize \/ CallDetach

Spec == Init /\ [][Next]_vars

\* the same watcher with a callback that throws
SpecThrow == InitThrow /\ [][Next]_vars

TypeOK ==
  /\ options \in Options \cup ThrowingOptions
  /\ classList \subseteq ClassNames(options)
  /\ activated \in BOOLEAN
  /\ listeners \subseteq {"scroll", "resize"}
  /\ Len(calls) <= MaxCalls

\* ------------------------------------------------------------------ claims

vhNow == viewportHeight(viewport)

\* the element's rectangle now satisfies rect.top < vh - offset && rect.bottom > offset
InViewNow == rect.top < vhNow - options.offset /\ rect.bottom > options.offset

BothListeners == {"scroll", "resize"}

\* C1: one-shot mode (once=true, repeat=false): a check that finds the element
\* in view is the first such check, runs activate and removes both listeners in
\* the same step; from then on no step changes the element's classes, the
\* activated flag or the callback calls, wherever the element moves.
C1_OneShotDetachesOnActivation ==
  [][ (options.once /\ ~options.repeat) =>
        /\ (last'.outcome # "none" /\ lastInView' = "in") =>
             /\ ~activated
             /\ lastInView # "in"
             /\ last'.outcome = "activate"
             /\ options.classToAdd \in classList'
             /\ activated'
             /\ listeners' = {}
        /\ activated =>
             /\ listeners = {}
             /\ UNCHANGED <<classList, activated, calls, listeners>> ]_vars

\* C1 witness: after the one-shot activation a signal arrived with the element
\* out of view, and the class and the single callback call are still there.
C1_Witness ==
  /\ options.once /\ ~options.repeat
  /\ activated /\ listeners = {}
  /\ last = [op |-> "signal", outcome |-> "none"]
  /\ ~InViewNow
  /\ options.classToAdd \in classList
  /\ calls = <<"add">>

AlternatesFromAdd(s) ==
  \A i \in 1..Len(s) : s[i] = IF i % 2 = 1 THEN "add" ELSE "remove"

\* C2: repeat mode: while every check so far has flipped inView (in, out, in,
\* ...), an in-view check leaves classToAdd present, classToRemove absent and
\* calls callback(el,"add") once; an out-of-view check leaves classToAdd absent,
\* classToRemove present and calls callback(el,"remove") once; the callback
\* actions alternate add, remove, add, ...
C2_RepeatAlternates ==
  [][ (options.repeat /\ last'.outcome # "none" /\ flips') =>
        /\ lastInView' = "in" =>
             /\ options.classToAdd \in classList'
             /\ truthy(options.classToRemove) => options.classToRemove \notin classList'
             /\ options.callback = "function" => calls' = Append(calls, "add")
        /\ lastInView' = "out" =>
             /\ options.classToAdd \notin classList'
             /\ truthy(options.classToRemove) => options.classToRemove \in classList'
             /\ options.callback = "function" => calls' = Append(calls, "remove")
        /\ AlternatesFromAdd(calls') ]_vars

\* C2 witness: three flipping checks in repeat mode, the third one in view.
C2_Witness ==
  /\ options.repeat /\ flips
  /\ truthy(options.classToRemove)
  /\ listeners = BothListeners
  /\ calls = <<"add", "remove", "add">>
  /\ classList = {options.classToAdd}
  /\ last.outcome = "activate"

\* C3: when que() returns for an element that exists, both listeners were
\* registered and one check has run; if the element was in view, classToAdd is
\* on it, the callback was called exactly once with "add", activated is true,
\* and with once=true, repeat=false no listener remains.  The scenario
\* offset=50, vh=800, rect 700..750 is such a case.
C3_ConstructionRunsOneCheck ==
  (last.op = "que" /\ el # NULL) =>
    /\ result = "handle"
    /\ lastInView = IF InViewNow THEN "in" ELSE "out"
    /\ listeners = IF InViewNow /\ options.once /\ ~options.repeat
                     THEN {} ELSE BothListeners
    /\ InViewNow =>
         /\ options.classToAdd \in classList
         /\ activated
         /\ calls = IF options.callback = "function" THEN <<"add">> ELSE <<>>
    /\ (rect = ScenarioRect /\ viewport = ScenarioViewport
          /\ options.offset = Scenario.offset) =>
         /\ 700 < 800 - 50 /\ 750 > 50
         /\ activated
         /\ options.classToAdd \in classList

\* C3 witness: the scenario with the default options and a callback.
C3_Witness ==
  /\ last = [op |-> "que", outcome |-> "activate"]
  /\ options = [defaults EXCEPT !.offset = Scenario.offset, !.callback = "function"]
  /\ rect = ScenarioRect /\ viewport = ScenarioViewport
  /\ "que" \in classList
  /\ calls = <<"add">>
  /\ activated
  /\ listeners = {}

\* C4: when the selector matches no element, que() returns undefined, no
\* listener is registered, no check ever runs, the callback is never called,
\* and no later signal changes anything.
C4_UnresolvedSelectorIsInert ==
  (el = NULL /\ result # "pending") =>
    /\ result = "undefined"
    /\ listeners = {}
    /\ lastInView = "never"
    /\ lastTransition = "none"
    /\ calls = <<>>
    /\ ~activated
    /\ classList = initClasses

\* C4 witness: a signal arrived, with the rectangle in view, after que() found
\* no element.
C4_Witness ==
  /\ el = NULL
  /\ result = "undefined"
  /\ last = [op |-> "signal", outcome |-> "none"]
  /\ InViewNow
  /\ options.callback = "function"

IsDetachStep == last'.op \in {"detach", "detach again"}

\* C5: detach() is idempotent: after any detach() both listeners are absent,
\* and a detach() that directly follows a detach() changes nothing.
C5_DetachIdempotent ==
  [][ /\ IsDetachStep => listeners' = {}
      /\ result = "handle" => detach(detach(closure)) = detach(closure)
      /\ last'.op = "detach again" =>
           UNCHANGED <<options, el, classList, activated, listeners, calls,
                       result, rect, viewport>> ]_vars

\* C5 witness: detach() called twice in a row on an activated repeat watcher.
C5_Witness ==
  /\ last.op = "detach again"
  /\ options.repeat /\ activated
  /\ listeners = {}

\* C6: detach() leaves the activated flag, the element's classes and the
\* callback calls as they were.
C6_DetachFrame ==
  [][ IsDetachStep => UNCHANGED <<activated, classList, calls>> ]_vars

\* C6 witness: detach() called on an activated watcher that still had its
\* listeners; the class, the flag and the call are kept.
C6_Witness ==
  /\ last.op = "detach"
  /\ ~(options.once /\ ~options.repeat)
  /\ activated
  /\ options.classToAdd \in classList
  /\ calls = <<"add">>
  /\ listeners = {}

\* C7: with classToRemove configured and neither class on the element when
\* que() was called, the element never carries classToAdd and classToRemove
\* together.
C7_ClassesMutuallyExclusive ==
  (truthy(options.classToRemove)
     /\ initClasses \cap {options.classToAdd, options.classToRemove} = {}) =>
    ~(options.classToAdd \in classList /\ options.classToRemove \in classList)

\* C7 witness: after activate, deactivate and activate again the element
\* carries classToAdd alone.
C7_Witness ==
  /\ truthy(options.classToRemove)
  /\ initClasses = {}
  /\ calls = <<"add", "remove", "add">>
  /\ classList = {options.classToAdd}

\* C8: activated is true exactly when the most recent class transition was
\* activate (classToAdd applied, not removed since); it is false before any
\* activate and after every deactivate.
C8_ActivatedTracksLastTransition ==
  /\ activated <=> lastTransition = "activate"
  /\ lastTransition = "activate" => options.classToAdd \in classList
  /\ lastTransition = "deactivate" => options.classToAdd \notin classList

\* C8 witness: a deactivate followed an activate, and the flag is false.
C8_Witness ==
  /\ lastTransition = "deactivate"
  /\ ~activated
  /\ calls = <<"add", "remove">>
  /\ last.outcome = "noop"

\* C9: on a watcher that has never activated, a check with the rectangle fully
\* above (rect.bottom <= offset) or fully below (rect.top >= vh - offset) the
\* band finds inView false and changes no class, calls no callback, leaves
\* activated false and both listeners registered.
C9_OutOfViewCheckChangesNothing ==
  [][ ( /\ last'.outcome # "none"
        /\ lastTransition = "none"
        /\ \/ rect'.bottom <= options.offset
           \/ rect'.top >= viewportHeight(viewport') - options.offset ) =>
        /\ lastInView' = "out"
        /\ last'.outcome = "noop"
        /\ UNCHANGED <<classList, activated, calls>>
        /\ ~activated'
        /\ listeners' = BothListeners ]_vars

\* C9 witness: a signal found a never-activated repeat watcher fully below the
\* band and did nothing.
C9_Witness ==
  /\ last = [op |-> "signal", outcome |-> "noop"]
  /\ lastTransition = "none"
  /\ options.repeat
  /\ rect.top >= vhNow - options.offset
  /\ rect.bottom > options.offset
  /\ classList = initClasses
  /\ calls = <<>>
  /\ listeners = BothListeners

\* the closed extent [top, bottom] meets the open interval (lo, hi): with
\* integer ends, they share a point iff they share a multiple of 1/2
Overlaps(top, bottom, lo, hi) ==
  \E k \in (2 * top)..(2 * bottom) : 2 * lo < k /\ k < 2 * hi

\* C10 as stated: at every check, inView is true exactly when [top, bottom]
\* overlaps the band strictly between offset and vh - offset, for every
\* offset, also when 2*offset >= vh and the band is empty.
C10_InViewIsOverlap_AsStated ==
  last.outcome # "none" =>
    ((lastInView = "in") <=>
       Overlaps(rect.top, rect.bottom, options.offset, vhNow - options.offset))

\* C10 amended: the same equivalence, for the offsets with 2*offset < vh, where
\* the band is not empty.
C10_InViewIsOverlap ==
  (last.outcome # "none" /\ 2 * options.offset < vhNow) =>
    ((lastInView = "in") <=>
       Overlaps(rect.top, rect.bottom, options.offset, vhNow - options.offset))

\* C10 witness: a check with a positive offset and a non-empty band found an
\* element that straddles the upper edge of the band in view.
C10_Witness ==
  /\ last.outcome = "activate"
  /\ options.offset > 0
  /\ 2 * options.offset < vhNow
  /\ rect.top < options.offset
  /\ lastInView = "in"

\* C11: with repeat=true, for either value of once, as long as detach() is not
\* called both listeners stay registered: que() registers them and no step
\* other than detach() removes one, whatever activate / deactivate ran.
C11_RepeatKeepsListeners ==
  [][ (options.repeat /\ el # NULL /\ ~IsDetachStep) =>
        ((last'.op = "que" \/ listeners = BothListeners) =>
           listeners' = BothListeners) ]_vars

\* C11 witness: once=true, repeat=true, an activate then a deactivate have run
\* and both listeners are still registered.
C11_Witness ==
  /\ options.repeat /\ options.once
  /\ lastTransition = "deactivate"
  /\ last = [op |-> "signal", outcome |-> "deactivate"]
  /\ listeners = BothListeners

\* C12 as stated: with classToRemove configured and repeat=true, after every
\* check that finds the element out of view, the check que() runs included,
\* the element carries classToRemove.
C12_OutOfViewCarriesRemoveClass_AsStated ==
  (truthy(options.classToRemove) /\ options.repeat
     /\ last.outcome # "none" /\ lastInView = "out") =>
    options.classToRemove \in classList

\* C12 amended: with classToRemove configured and repeat=true, after an
\* out-of-view check of a watcher that has activated before, the element
\* carries classToRemove and not classToAdd; while the watcher has never
\* activated, the element's classes are those it had when que() was called.
C12_OutOfViewAfterActivationCarriesRemoveClass ==
  (truthy(options.classToRemove) /\ options.repeat) =>
    /\ (lastInView = "out" /\ lastTransition # "none") =>
         /\ options.classToRemove \in classList
         /\ options.classToAdd \notin classList
    /\ lastTransition = "none" => classList = initClasses

\* C12 witness: a signal found an activated repeat watcher out of view and
\* deactivate put classToRemove on an element that did not carry it.
C12_Witness ==
  /\ truthy(options.classToRemove) /\ options.repeat
  /\ initClasses = {}
  /\ last = [op |-> "signal", outcome |-> "deactivate"]
  /\ classList = {options.classToRemove}

\* the listeners a check starts from: que() has just registered both
ListenersAtCheck == IF last'.op = "que" THEN BothListeners ELSE listeners

\* C13: one check does exactly one of three things, decided by (inView,
\* activated, once, repeat): activate when inView and (not activated or
\* repeat); deactivate when not inView and activated and repeat; otherwise
\* nothing.  It removes the listeners only when it activates with once=true
\* and repeat=false.
C13_CheckTransitionTable ==
  [][ last'.outcome # "none" =>
        LET iv == lastInView' = "in"
            cta == options.classToAdd
            ctr == IF truthy(options.classToRemove)
                     THEN {options.classToRemove} ELSE {}
            called(a) == IF options.callback = "function"
                           THEN Append(calls, a) ELSE calls
        IN  IF iv /\ (~activated \/ options.repeat)
              THEN /\ last'.outcome = "activate"
                   /\ classList' = (classList \cup {cta}) \ ctr
                   /\ activated'
                   /\ calls' = called("add")
                   /\ listeners' = IF options.once /\ ~options.repeat
                                     THEN {} ELSE ListenersAtCheck
            ELSE IF ~iv /\ activated /\ options.repeat
              THEN /\ last'.outcome = "deactivate"
                   /\ classList' = (classList \ {cta}) \cup ctr
                   /\ ~activated'
                   /\ calls' = called("remove")
                   /\ listeners' = ListenersAtCheck
            ELSE /\ last'.outcome = "noop"
                 /\ UNCHANGED <<classList, activated, calls>>
                 /\ listeners' = ListenersAtCheck ]_vars

\* C13 witness: a check found an activated watcher with once=false,
\* repeat=false in view and did nothing.
C13_Witness ==
  /\ ~options.once /\ ~options.repeat
  /\ last = [op |-> "signal", outcome |-> "noop"]
  /\ lastInView = "in"
  /\ activated
  /\ calls = <<"add">>
  /\ listeners = BothListeners

\* C14 as stated: with once=true and repeat=true the listeners are removed
\* right after the first activation, so there is no deactivate and no second
\* activate, as with once=true and repeat=false.
C14_OnceOverridesRepeat_AsStated ==
  (options.once /\ options.repeat /\ lastTransition # "none") =>
    /\ listeners = {}
    /\ lastTransition = "activate"
    /\ Len(calls) <= 1

\* C14 amended: repeat takes precedence over once: with repeat=true a check
\* does the same for once=true as for once=false - it activates whenever the
\* element is in view, deactivates when an activated element is out of view,
\* and never removes a listener - so once has an effect only when repeat=false.
C14_RepeatOverridesOnce ==
  [][ (options.repeat /\ last'.outcome # "none") =>
        /\ listeners' = BothListeners
        /\ last'.outcome =
             IF lastInView' = "in" THEN "activate"
             ELSE IF activated THEN "deactivate" ELSE "noop"
        /\ activated' = (lastInView' = "in")
        /\ options.callback = "function" =>
             calls' = IF lastInView' = "in" THEN Append(calls, "add")
                      ELSE IF activated THEN Append(calls, "remove")
                      ELSE calls ]_vars

\* C14 witness: once=true, repeat=true, and after the first activation a
\* deactivate and a second activate have run with both listeners in place.
C14_Witness ==
  /\ options.once /\ options.repeat
  /\ calls = <<"add", "remove", "add">>
  /\ activated
  /\ listeners = BothListeners

\* C15: once detach() has been called the listeners are gone and are never
\* registered again: no later signal runs a check, wherever the element
\* moves, so classes, activated and the callback calls never change again.
C15_DetachIsFinal ==
  [][ /\ IsDetachStep => listeners' = {}
      /\ (result = "handle" /\ listeners = {}) =>
           /\ listeners' = {}
           /\ last'.outcome = "none"
           /\ UNCHANGED <<classList, activated, calls, lastInView>> ]_vars

\* C15 witness: detach() was called on a watcher that had never activated,
\* then a signal arrived with the element in view: no check ran.
C15_Witness ==
  /\ result = "handle"
  /\ listeners = {}
  /\ lastTransition = "none"
  /\ lastInView = "out"
  /\ last = [op |-> "signal", outcome |-> "none"]
  /\ InViewNow
  /\ classList = initClasses
  /\ calls = <<>>

\* C16 as stated: for every once and repeat, after any check, activated true
\* implies that the most recent check found the element in view.
C16_ActivatedImpliesInView_AsStated ==
  activated => lastInView = "in"

\* C16 amended: the same, except for once=false, repeat=false, where the
\* check keeps running after the activation and never deactivates.
C16_ActivatedImpliesInView ==
  (options.repeat \/ options.once) => (activated => lastInView = "in")

\* C16 witness: a repeat watcher with once=false was activated again by a
\* check that found it back in view after a deactivate.
C16_Witness ==
  /\ options.repeat /\ ~options.once
  /\ calls = <<"add", "remove", "add">>
  /\ last = [op |-> "signal", outcome |-> "activate"]
  /\ activated
  /\ lastInView = "in"

\* C17: with repeat=true, over any sequence of signals, the callback actions
\* start with "add" and strictly alternate "add" / "remove".
C17_CallbackAlternates ==
  options.repeat => AlternatesFromAdd(calls)

\* C18: with repeat=false, for either once: activate runs at most once and
\* deactivate never; classToAdd, once applied, stays on the element and the
\* callback is never called with "remove"; with once=false both listeners
\* stay registered after the activation until detach() is called.
C18_NoRepeatIsPermanentAndSingle ==
  [][ ~options.repeat =>
        /\ last'.outcome # "deactivate"
        /\ last'.outcome = "activate" => lastTransition = "none"
        /\ lastTransition = "activate" =>
             /\ options.classToAdd \in classList
             /\ options.classToAdd \in classList'
             /\ activated'
        /\ Len(calls') <= 1
        /\ \A i \in 1..Len(calls') : calls'[i] = "add"
        /\ (~options.once /\ el # NULL /\ ~IsDetachStep) =>
             ((last'.op = "que" \/ listeners = BothListeners) =>
                listeners' = BothListeners) ]_vars

\* C18 witness: once=false, repeat=false: after the activation two checks
\* ran, the last one with the element out of view; the class, the single call
\* and both listeners are still there.
C18_Witness ==
  /\ ~options.repeat /\ ~options.once
  /\ lastTransition = "activate"
  /\ last = [op |-> "signal", outcome |-> "noop"]
  /\ lastInView = "out"
  /\ ~InViewNow
  /\ classList = {options.classToAdd}
  /\ calls = <<"add">>
  /\ listeners = BothListeners

\* C19: when callback(el,"add") is entered the element already carries
\* classToAdd and no longer classToRemove; when callback(el,"remove") is
\* entered it no longer carries classToAdd and already carries classToRemove;
\* activated still has the value it had before the check and is updated after
\* the callback returns; in one-shot mode both listeners are still registered
\* while the "add" callback runs and are removed after it.
C19_StateSeenByCallback ==
  [][ calls' # calls =>
        LET a == calls'[Len(calls')]
        IN  /\ seen'.action = a
            /\ a = "add" =>
                 /\ options.classToAdd \in seen'.classList
                 /\ truthy(options.classToRemove) =>
                      options.classToRemove \notin seen'.classList
            /\ a = "remove" =>
                 /\ options.classToAdd \notin seen'.classList
                 /\ truthy(options.classToRemove) =>
                      options.classToRemove \in seen'.classList
            /\ seen'.activated = activated
            /\ activated' = (a = "add")
            /\ (options.once /\ ~options.repeat) =>
                 /\ a = "add"
                 /\ seen'.listeners = BothListeners
                 /\ listeners' = {} ]_vars

\* C19 witness: a one-shot watcher on an element that carried classToRemove:
\* the "add" callback saw classToAdd without classToRemove, activated still
\* false and both listeners, which are gone now.
C19_Witness ==
  /\ options.once /\ ~options.repeat
  /\ truthy(options.classToRemove)
  /\ options.classToRemove \in initClasses
  /\ seen = [action |-> "add", classList |-> {options.classToAdd},
             activated |-> FALSE, listeners |-> BothListeners]
  /\ activated
  /\ listeners = {}

\* C20: with once=true and repeat=false the callback is called at most once
\* over the watcher's lifetime, and only with "add", also when the callback
\* throws during the activating check.
C20_OneShotCallsBackOnce ==
  (options.once /\ ~options.repeat) =>
    /\ Len(calls) <= 1
    /\ \A i \in 1..Len(calls) : calls[i] = "add"

====
